---- MODULE Spec2Model ----
(***************************************************************************)
(* A model of claude-tui (src/main.rs): the project scan, the sort of the  *)
(* scanned collection, and the selection / filter state machine driven by  *)
(* the key-event loop of main().                                           *)
(*                                                                         *)
(* Conventions.  An Option<T> is a sequence of length <= 1: None is <<>>,  *)
(* Some(x) is <<x>>.  A String is a sequence of one-character strings.     *)
(* Indices into Vec values are 0-based as in the source; the i-th element  *)
(* of a Vec v is v[i + 1].                                                 *)
(***************************************************************************)
EXTENDS Integers, Sequences, FiniteSets, Bags, TLC

VARIABLES
  projects,     \* App.projects (in the scan: the local Vec being built)
  list_state,   \* App.list_state.selected(): Option<usize>
  searching,    \* App.searching
  filter,       \* App.filter
  quit,         \* App.quit
  key,          \* the KeyCode most recently read by event::read()
  pc,           \* position of the single thread of main()
  raw_mode,     \* terminal raw mode is enabled
  alt_screen,   \* terminal shows the alternate screen
  spawned,      \* Option: the child process started by the latest step
  stderr,       \* Option: the message eprintln!-ed by the latest step
  status,       \* Option: what Command::status returned in the latest step
  dir_idx,      \* scan_projects: 0-based index of the current SCAN_DIRS item
  seen,         \* scan_projects: number of directory entries read so far
  entry         \* scan_projects: Option, the directory entry last examined

vars == <<projects, list_state, searching, filter, quit, key, pc, raw_mode,
          alt_screen, spawned, stderr, status, dir_idx, seen, entry>>

ui_vars == <<list_state, searching, filter, quit, key, raw_mode, alt_screen,
             spawned, stderr, status>>

scan_vars == <<dir_idx, seen, entry>>

----------------------------------------------------------------------------
(* Bounds of the model.                                                     *)

MaxProjects == 2      \* projects in the collection of the key-loop model
MaxFilterLen == 2     \* characters typed into the filter
MaxEntries == 1       \* directory entries read during one scan
MaxDeviations == 1    \* probes of one entry that answer unlike a healthy one
MaxSortLen == 5       \* length of the vector handed to the sort
MaxTime == 3          \* distinct modification timestamps

----------------------------------------------------------------------------
(* Option and String helpers.                                               *)

None == <<>>

Some(x) == <<x>>

IsSome(o) == o # <<>>

Unwrap(o) == o[1]

Min(a, b) == IF a <= b THEN a ELSE b

\* char::to_lowercase on the characters the model uses; any other
\* character (here "-", ".", lowercase letters) is its own lowercase.
LowerChar(c) ==
  CASE c = "A" -> "a"
    [] c = "J" -> "j"
    [] OTHER -> c

\* str::to_lowercase
ToLowercase(s) == [i \in 1..Len(s) |-> LowerChar(s[i])]

\* the slice of s that starts at 0-based offset off and has length n
Slice(s, off, n) == [i \in 1..n |-> s[off + i]]

\* str::contains: searches the offsets from the left
RECURSIVE ContainsFrom(_, _, _)
ContainsFrom(hay, needle, off) ==
  IF off + Len(needle) > Len(hay) THEN FALSE
  ELSE IF Slice(hay, off, Len(needle)) = needle THEN TRUE
  ELSE ContainsFrom(hay, needle, off + 1)

Contains(hay, needle) == ContainsFrom(hay, needle, 0)

\* str::starts_with(char)
StartsWith(s, c) == Len(s) > 0 /\ s[1] = c

\* a pop that removes nothing
PopCharKeeps(s) == s

\* String::pop
PopChar(s) == IF Len(s) = 0 THEN s ELSE SubSeq(s, 1, Len(s) - 1)

----------------------------------------------------------------------------
(* struct Project.                                                          *)

Project(name, source, modified, has_doc, git_branch, git_dirty, config_labels) ==
  [name |-> name, source |-> source, modified |-> modified,
   has_doc |-> has_doc, git_branch |-> git_branch, git_dirty |-> git_dirty,
   config_labels |-> config_labels]

\* SCAN_DIRS, by the final path segment of each item
SCAN_DIRS == <<"app", "playground">>

\* the name the scan refuses: "claude-tui"
SelfName == <<"c", "l", "a", "u", "d", "e", "-", "t", "u", "i">>

----------------------------------------------------------------------------
(* The sort that ends scan_projects.                                        *)

\* <Option<SystemTime> as Ord>::cmp: None is less than every Some
OptionCmp(x, y) ==
  IF x = None THEN (IF y = None THEN "Equal" ELSE "Less")
  ELSE IF y = None THEN "Greater"
  ELSE IF Unwrap(x) < Unwrap(y) THEN "Less"
  ELSE IF Unwrap(x) > Unwrap(y) THEN "Greater"
  ELSE "Equal"

\* the comparator with its arguments in the order given: ascending
ByModifiedAscending(a, b) == OptionCmp(a.modified, b.modified)

\* the closure |a, b| b.modified.cmp(&a.modified)
ByModified(a, b) == OptionCmp(b.modified, a.modified)

\* slice::sort_by is a stable sort: x goes behind every element that the
\* comparator does not place after it
RECURSIVE InsertSorted(_, _)
InsertSorted(s, x) ==
  IF s = <<>> THEN <<x>>
  ELSE IF ByModified(Head(s), x) = "Greater" THEN <<x>> \o s
  ELSE <<Head(s)>> \o InsertSorted(Tail(s), x)

RECURSIVE SortFrom(_, _)
SortFrom(done, rest) ==
  IF rest = <<>> THEN done
  ELSE SortFrom(InsertSorted(done, Head(rest)), Tail(rest))

\* projects.sort_by(|a, b| b.modified.cmp(&a.modified))
SortByModified(v) == SortFrom(<<>>, v)

----------------------------------------------------------------------------
(* impl App.                                                                *)

\* App::new, the selection it starts with
NewListState(ps) == IF ps = <<>> THEN None ELSE Some(0)

\* App::filtered_indices
RECURSIVE FilterFrom(_, _, _)
FilterFrom(ps, query, i) ==
  IF i >= Len(ps) THEN <<>>
  ELSE IF query = <<>> \/ Contains(ToLowercase(ps[i + 1].name), query)
       THEN <<i>> \o FilterFrom(ps, query, i + 1)
       ELSE FilterFrom(ps, query, i + 1)

\* the filter compared as typed, without to_lowercase
FilteredIndicesAsTyped(ps, flt) == FilterFrom(ps, flt, 0)

FilteredIndices(ps, flt) == FilterFrom(ps, ToLowercase(flt), 0)

\* move_selection without the .min(filtered.len() - 1)
MoveSelectionUnclamped(ps, flt, sel, delta) ==
  LET filtered == FilteredIndices(ps, flt)
      current == IF IsSome(sel) THEN Unwrap(sel) ELSE 0
  IN IF filtered = <<>> THEN None
     ELSE IF delta > 0 THEN Some(current + 1)
     ELSE Some(IF current = 0 THEN 0 ELSE current - 1)

\* App::move_selection: the new value of list_state.selected()
MoveSelection(ps, flt, sel, delta) ==
  LET filtered == FilteredIndices(ps, flt)
      current == IF IsSome(sel) THEN Unwrap(sel) ELSE 0
  IN IF filtered = <<>> THEN None
     ELSE IF delta > 0 THEN Some(Min(current + 1, Len(filtered) - 1))
     ELSE Some(IF current = 0 THEN 0 ELSE current - 1)

\* selected_project that indexes the backing collection with the cursor
SelectedProjectUnfiltered(ps, flt, sel) ==
  IF sel = None THEN None
  ELSE IF Unwrap(sel) >= Len(ps) THEN None
  ELSE Some(Unwrap(sel))

\* App::selected_project: Option of the backing index of the project
SelectedProject(ps, flt, sel) ==
  LET filtered == FilteredIndices(ps, flt)
  IN IF sel = None THEN None
     ELSE IF Unwrap(sel) >= Len(filtered) THEN None
     ELSE IF filtered[Unwrap(sel) + 1] >= Len(ps) THEN None
     ELSE Some(filtered[Unwrap(sel) + 1])

\* a Command handed to the operating system, for the project at index p
Child(cmd, p) == [cmd |-> cmd, project |-> p]

----------------------------------------------------------------------------
(* Key events.                                                              *)

KeyOf(code) == [code |-> code, c |-> ""]

CharKey(c) == [code |-> "Char", c |-> c]

NoKey == KeyOf("None")

\* the characters typed into the filter while searching
SearchChars == {"a", "j", "J"}

\* characters that are no command while browsing
IdleChars == {"a", "J"}

\* project names of the key-loop model
Names == {<<"a">>, <<"J">>, <<"a", "j">>, <<"J", "a">>, <<"j", "A", "j">>}

\* a project directory without git, document, config or dated children
BareProject(name) == Project(name, "app", None, FALSE, None, FALSE, <<>>)

SeqsUpTo(S, n) == UNION {[1..k -> S] : k \in 0..n}

AppCollections == SeqsUpTo({BareProject(n) : n \in Names}, MaxProjects)

\* the state main() is in when the loop starts: raw mode and alternate
\* screen entered, App::new() done
Init ==
  /\ projects \in AppCollections
  /\ list_state = NewListState(projects)
  /\ searching = FALSE
  /\ filter = <<>>
  /\ quit = FALSE
  /\ key = NoKey
  /\ pc = "loop"
  /\ raw_mode = TRUE
  /\ alt_screen = TRUE
  /\ spawned = None
  /\ stderr = None
  /\ status = None
  /\ dir_idx = Len(SCAN_DIRS)
  /\ seen = 0
  /\ entry = None

\* one iteration of `while !app.quit` that reads a key press
Reads(k) ==
  /\ pc = "loop"
  /\ ~quit
  /\ key' = k

\* an iteration whose handler starts no process and prints nothing
Quiet == spawned' = None /\ stderr' = None /\ status' = None

TermKept == UNCHANGED <<raw_mode, alt_screen>>

\* App::launch_claude up to the point where Command::status blocks
LaunchClaude ==
  LET sel == SelectedProject(projects, filter, list_state)
  IN IF IsSome(sel)
     THEN /\ raw_mode' = FALSE
          /\ alt_screen' = FALSE
          /\ spawned' = Some(Child("claude", Unwrap(sel)))
          /\ stderr' = None
          /\ status' = None
          /\ pc' = "claude"
     ELSE /\ TermKept
          /\ Quiet
          /\ pc' = pc

\* launch_claude returning early, terminal not restored, when the spawn fails
ClaudeReturnsEarly ==
  /\ pc = "claude"
  /\ \E st \in {"success", "failure", "spawn_error"} :
       /\ status' = Some(st)
       /\ stderr' = CASE st = "success" -> None
                      [] st = "failure" -> Some("Claude exited with")
                      [] st = "spawn_error" -> Some("Failed to launch claude")
       /\ alt_screen' = (st # "spawn_error")
       /\ raw_mode' = (st # "spawn_error")
  /\ spawned' = None
  /\ pc' = "loop"
  /\ UNCHANGED <<projects, list_state, searching, filter, quit, key>>
  /\ UNCHANGED scan_vars

\* App::launch_claude after Command::status returned
ClaudeReturns ==
  /\ pc = "claude"
  /\ \E st \in {"success", "failure", "spawn_error"} :
       /\ status' = Some(st)
       /\ stderr' = CASE st = "success" -> None
                      [] st = "failure" -> Some("Claude exited with")
                      [] st = "spawn_error" -> Some("Failed to launch claude")
  /\ alt_screen' = TRUE
  /\ raw_mode' = TRUE
  /\ spawned' = None
  /\ pc' = "loop"
  /\ UNCHANGED <<projects, list_state, searching, filter, quit, key>>
  /\ UNCHANGED scan_vars

\* App::open_finder
OpenFinder ==
  LET sel == SelectedProject(projects, filter, list_state)
  IN /\ spawned' = IF IsSome(sel) THEN Some(Child("open", Unwrap(sel))) ELSE None
     /\ stderr' = None
     /\ status' = None

\* App::open_doc; find_obsidian_doc reads the file system again
OpenDoc ==
  LET sel == SelectedProject(projects, filter, list_state)
  IN /\ \E doc_found \in BOOLEAN :
          spawned' = IF IsSome(sel) /\ doc_found
                     THEN Some(Child("open_uri", Unwrap(sel)))
                     ELSE None
     /\ stderr' = None
     /\ status' = None

(* main(): the match on key.code while app.searching *)

SearchEsc ==
  /\ Reads(KeyOf("Esc")) /\ searching
  /\ searching' = FALSE
  /\ filter' = <<>>
  /\ list_state' = Some(0)
  /\ Quiet /\ TermKept
  /\ UNCHANGED <<projects, quit, pc>> /\ UNCHANGED scan_vars

SearchBackspace ==
  /\ Reads(KeyOf("Backspace")) /\ searching
  /\ filter' = PopChar(filter)
  /\ searching' = IF filter' = <<>> THEN FALSE ELSE searching
  /\ list_state' = Some(0)
  /\ Quiet /\ TermKept
  /\ UNCHANGED <<projects, quit, pc>> /\ UNCHANGED scan_vars

SearchEnter ==
  /\ Reads(KeyOf("Enter")) /\ searching
  /\ LaunchClaude
  /\ UNCHANGED <<projects, list_state, searching, filter, quit>>
  /\ UNCHANGED scan_vars

SearchUp ==
  /\ Reads(KeyOf("Up")) /\ searching
  /\ list_state' = MoveSelection(projects, filter, list_state, -1)
  /\ Quiet /\ TermKept
  /\ UNCHANGED <<projects, searching, filter, quit, pc>> /\ UNCHANGED scan_vars

SearchDown ==
  /\ Reads(KeyOf("Down")) /\ searching
  /\ list_state' = MoveSelection(projects, filter, list_state, 1)
  /\ Quiet /\ TermKept
  /\ UNCHANGED <<projects, searching, filter, quit, pc>> /\ UNCHANGED scan_vars

SearchChar ==
  /\ \E c \in SearchChars : Reads(CharKey(c)) /\ filter' = Append(filter, c)
  /\ searching
  /\ Len(filter) < MaxFilterLen
  /\ list_state' = Some(0)
  /\ Quiet /\ TermKept
  /\ UNCHANGED <<projects, searching, quit, pc>> /\ UNCHANGED scan_vars

SearchOther ==
  /\ Reads(KeyOf("Tab")) /\ searching
  /\ Quiet /\ TermKept
  /\ UNCHANGED <<projects, list_state, searching, filter, quit, pc>>
  /\ UNCHANGED scan_vars

(* main(): the match on key.code while not app.searching *)

BrowseQuit ==
  /\ Reads(CharKey("q")) /\ ~searching
  /\ quit' = TRUE
  /\ Quiet /\ TermKept
  /\ UNCHANGED <<projects, list_state, searching, filter, pc>>
  /\ UNCHANGED scan_vars

BrowseFinder ==
  /\ Reads(CharKey("f")) /\ ~searching
  /\ OpenFinder
  /\ TermKept
  /\ UNCHANGED <<projects, list_state, searching, filter, quit, pc>>
  /\ UNCHANGED scan_vars

BrowseDoc ==
  /\ Reads(CharKey("d")) /\ ~searching
  /\ OpenDoc
  /\ TermKept
  /\ UNCHANGED <<projects, list_state, searching, filter, quit, pc>>
  /\ UNCHANGED scan_vars

BrowseSlash ==
  /\ Reads(CharKey("/")) /\ ~searching
  /\ searching' = TRUE
  /\ Quiet /\ TermKept
  /\ UNCHANGED <<projects, list_state, filter, quit, pc>>
  /\ UNCHANGED scan_vars

BrowseUp ==
  /\ \E k \in {KeyOf("Up"), CharKey("k")} : Reads(k)
  /\ ~searching
  /\ list_state' = MoveSelection(projects, filter, list_state, -1)
  /\ Quiet /\ TermKept
  /\ UNCHANGED <<projects, searching, filter, quit, pc>> /\ UNCHANGED scan_vars

BrowseDown ==
  /\ \E k \in {KeyOf("Down"), CharKey("j")} : Reads(k)
  /\ ~searching
  /\ list_state' = MoveSelection(projects, filter, list_state, 1)
  /\ Quiet /\ TermKept
  /\ UNCHANGED <<projects, searching, filter, quit, pc>> /\ UNCHANGED scan_vars

BrowseEnter ==
  /\ Reads(KeyOf("Enter")) /\ ~searching
  /\ LaunchClaude
  /\ UNCHANGED <<projects, list_state, searching, filter, quit>>
  /\ UNCHANGED scan_vars

BrowseOther ==
  /\ \E k \in {KeyOf("Esc"), KeyOf("Backspace"), KeyOf("Tab")}
              \cup {CharKey(c) : c \in IdleChars} : Reads(k)
  /\ ~searching
  /\ Quiet /\ TermKept
  /\ UNCHANGED <<projects, list_state, searching, filter, quit, pc>>
  /\ UNCHANGED scan_vars

\* main() after the loop: the terminal is handed back
LeaveLoop ==
  /\ pc = "loop" /\ quit
  /\ raw_mode' = FALSE
  /\ alt_screen' = FALSE
  /\ pc' = "exited"
  /\ UNCHANGED <<projects, list_state, searching, filter, quit, key, spawned,
                 stderr, status>>
  /\ UNCHANGED scan_vars

Next ==
  \/ SearchEsc \/ SearchBackspace \/ SearchEnter \/ SearchUp \/ SearchDown
  \/ SearchChar \/ SearchOther
  \/ BrowseQuit \/ BrowseFinder \/ BrowseDoc \/ BrowseSlash \/ BrowseUp
  \/ BrowseDown \/ BrowseEnter \/ BrowseOther
  \/ ClaudeReturns \/ LeaveLoop

Spec == Init /\ [][Next]_vars

----------------------------------------------------------------------------
(* scan_projects, called by App::new before the first render.               *)

\* commit and modification times the scan can read
ScanTimes == {1, 2}

\* the answer of one probe of the file system or of git: how it ended and,
\* when it ended well, the number it produced
Out(how, n) == [how |-> how, n |-> n]

Unrun == Out("unrun", 0)

GitEnvs ==
  [branch : {"fail", "empty", "main"},
   status : {"fail", "clean", "dirty"},
   log    : {Out("fail", 0), Out("garbage", 0)} \cup {Out("ok", t) : t \in ScanTimes}]

NoGit == [branch |-> "unrun", status |-> "unrun", log |-> Unrun]

ChildEnvs == {Out("fail", 0), Out("none", 0)} \cup {Out("ok", t) : t \in ScanTimes}

ConfigEnvs ==
  [claude_md : BOOLEAN,
   skills    : {Out("fail", 0), Out("ok", 0), Out("ok", 2)},
   mcp       : {Out("absent", 0), Out("unreadable", 0), Out("garbage", 0),
                Out("nokey", 0), Out("ok", 0), Out("ok", 2)}]

NoConfig == [claude_md |-> FALSE, skills |-> Unrun, mcp |-> Unrun]

\* every answer a directory entry that yields a project can get
AllDirEnvs ==
  [kind : {"dir"}, name : {<<"a">>}, doc : {"unlisted", "none", "found"},
   is_git : {TRUE}, git : GitEnvs, children : {Unrun}, config : ConfigEnvs]
  \cup
  [kind : {"dir"}, name : {<<"a">>}, doc : {"unlisted", "none", "found"},
   is_git : {FALSE}, git : {NoGit}, children : ChildEnvs, config : ConfigEnvs]

\* the number of probes of e whose answer is not the one a healthy, dirty
\* repository (or a plain directory with dated children) with a document and
\* a full configuration gives
Differs(b) == IF b THEN 1 ELSE 0

Deviations(e) ==
  Differs(e.doc # "found")
  + Differs(e.is_git /\ e.git.branch # "main")
  + Differs(e.is_git /\ e.git.status # "dirty")
  + Differs(e.is_git /\ e.git.log # Out("ok", 1))
  + Differs(~e.is_git /\ e.children # Out("ok", 1))
  + Differs(~e.config.claude_md)
  + Differs(e.config.skills # Out("ok", 2))
  + Differs(e.config.mcp # Out("ok", 2))

DirEnvs == {e \in AllDirEnvs : Deviations(e) <= MaxDeviations}

\* an entry the scan passes over: a read error, a plain file, a hidden or
\* self-named directory
Skipped(kind, name) ==
  [kind |-> kind, name |-> name, doc |-> "unread", is_git |-> FALSE,
   git |-> NoGit, children |-> Unrun, config |-> NoConfig]

EntryEnvs ==
  DirEnvs \cup {Skipped("err", <<>>), Skipped("file", <<"a">>),
                Skipped("dir", <<".", "a">>), Skipped("dir", SelfName)}

\* lines 101-108: git branch --show-current
GitBranch(e) == IF e.is_git /\ e.git.branch = "main" THEN Some("main") ELSE None

\* a failed git status taken for a dirty tree: unwrap_or(true)
GitDirtyOnFailure(e) == e.is_git /\ e.git.status \in {"dirty", "fail"}

\* lines 109-113: git status --porcelain
GitDirty(e) == e.is_git /\ e.git.status = "dirty"

\* lines 120-141: git log -1 --format=%ct, or the newest direct child
Modified(e) ==
  IF e.is_git
  THEN IF e.git.log.how = "ok" THEN Some(e.git.log.n) ELSE None
  ELSE IF e.children.how = "ok" THEN Some(e.children.n) ELSE None

\* a config label: its tag and the count printed in front of it
Label(tag, n) == [tag |-> tag, n |-> n]

\* lines 144-161
ConfigLabels(e) ==
  LET skill_count == IF e.config.skills.how = "ok" THEN e.config.skills.n ELSE 0
      mcp_count == IF e.config.mcp.how = "ok" THEN e.config.mcp.n ELSE 1
  IN (IF e.config.claude_md THEN <<Label("claude.md", 0)>> ELSE <<>>)
     \o (IF skill_count > 0 THEN <<Label("skills", skill_count)>> ELSE <<>>)
     \o (IF e.config.mcp.how # "absent" THEN <<Label("mcp", mcp_count)>> ELSE <<>>)

\* lines 93-95: the entries that become a project
Accepted(e) ==
  /\ e.kind = "dir"
  /\ ~StartsWith(e.name, ".")
  /\ e.name # SelfName

\* lines 96-172: the Project pushed for entry e of SCAN_DIRS[d]
BuildProject(e, d) ==
  Project(e.name, SCAN_DIRS[d + 1], Modified(e), e.doc = "found",
          GitBranch(e), GitDirty(e), ConfigLabels(e))

\* the state of main() when App::new() is entered
InitScan ==
  /\ projects = <<>>
  /\ list_state = None
  /\ searching = FALSE
  /\ filter = <<>>
  /\ quit = FALSE
  /\ key = NoKey
  /\ pc = "home"
  /\ raw_mode = TRUE
  /\ alt_screen = TRUE
  /\ spawned = None
  /\ stderr = None
  /\ status = None
  /\ dir_idx = 0
  /\ seen = 0
  /\ entry = None

\* line 83: dirs::home_dir().expect(..)
ResolveHome ==
  /\ pc = "home"
  /\ \E home \in {"resolved", "unresolved"} :
       IF home = "resolved"
       THEN pc' = "read_dir" /\ stderr' = stderr
       ELSE pc' = "panicked" /\ stderr' = Some("Cannot find home directory")
  /\ UNCHANGED <<projects, list_state, searching, filter, quit, key, raw_mode,
                 alt_screen, spawned, status>>
  /\ UNCHANGED scan_vars

\* line 90: fs::read_dir of the next configured root
ReadDir ==
  /\ pc = "read_dir"
  /\ dir_idx < Len(SCAN_DIRS)
  /\ \E listed \in BOOLEAN :
       IF listed
       THEN pc' = "entries" /\ dir_idx' = dir_idx
       ELSE pc' = "read_dir" /\ dir_idx' = dir_idx + 1
  /\ UNCHANGED <<projects, seen, entry>>
  /\ UNCHANGED ui_vars

\* lines 91-175: one entry of the directory being listed
ScanEntry ==
  /\ pc = "entries"
  /\ seen < MaxEntries
  /\ \E e \in EntryEnvs :
       /\ entry' = Some(e)
       /\ projects' = IF Accepted(e)
                      THEN Append(projects, BuildProject(e, dir_idx))
                      ELSE projects
  /\ seen' = seen + 1
  /\ UNCHANGED <<pc, dir_idx>>
  /\ UNCHANGED ui_vars

\* the listing of the current root is exhausted
EndOfDir ==
  /\ pc = "entries"
  /\ pc' = "read_dir"
  /\ dir_idx' = dir_idx + 1
  /\ UNCHANGED <<projects, seen, entry>>
  /\ UNCHANGED ui_vars

\* lines 179-181 and App::new: sort, then build the App
FinishScan ==
  /\ pc = "read_dir"
  /\ dir_idx = Len(SCAN_DIRS)
  /\ projects' = SortByModified(projects)
  /\ list_state' = NewListState(projects')
  /\ pc' = "loop"
  /\ UNCHANGED <<searching, filter, quit, key, raw_mode, alt_screen, spawned,
                 stderr, status>>
  /\ UNCHANGED scan_vars

NextScan == ResolveHome \/ ReadDir \/ ScanEntry \/ EndOfDir \/ FinishScan

SpecScan == InitScan /\ [][NextScan]_vars

----------------------------------------------------------------------------
(* The sort on its own: the scan has collected an arbitrary vector.         *)

\* the name of the i-th collected project: i times "a"
SortName(i) == [k \in 1..i |-> "a"]

Times == {None} \cup {Some(t) : t \in 1..MaxTime}

\* the vector collected when the i-th project has modified time m[i]
CollectedFrom(m) ==
  [i \in 1..Len(m) |-> Project(SortName(i), "app", m[i], FALSE, None, FALSE, <<>>)]

\* scan_projects after its loops, before line 180
InitSort ==
  /\ \E n \in 0..MaxSortLen : \E m \in [1..n -> Times] : projects = CollectedFrom(m)
  /\ list_state = None
  /\ searching = FALSE
  /\ filter = <<>>
  /\ quit = FALSE
  /\ key = NoKey
  /\ pc = "read_dir"
  /\ raw_mode = TRUE
  /\ alt_screen = TRUE
  /\ spawned = None
  /\ stderr = None
  /\ status = None
  /\ dir_idx = Len(SCAN_DIRS)
  /\ seen = 0
  /\ entry = None

NextSort == FinishScan

SpecSort == InitSort /\ [][NextSort]_vars

----------------------------------------------------------------------------
(* Vocabulary of the properties.                                            *)

\* the filtered view of the current state
View == FilteredIndices(projects, filter)

\* every backing index, in order
AllIndices(ps) == [i \in 1..Len(ps) |-> i - 1]

\* the first element of a view: index 0, or absent when the view is empty
FirstOf(view) == IF view = <<>> THEN None ELSE Some(0)

\* the cursor is a valid index into the view
InView(sel, view) == IsSome(sel) /\ Unwrap(sel) < Len(view)

\* f occurs in name as a substring, letter case ignored
MatchesIgnoringCase(name, f) ==
  \E off \in 0..(Len(name) - Len(f)) :
    \A k \in 1..Len(f) : LowerChar(name[off + k]) = LowerChar(f[k])

\* the backing indices whose project name matches the filter
Matching(ps, f) ==
  {i \in 0..(Len(ps) - 1) : MatchesIgnoringCase(ps[i + 1].name, f)}

\* this step is an iteration of the input loop that handles a key press
KeyStep == pc = "loop" /\ ~quit

MovesForward ==
  KeyStep /\ (key' = KeyOf("Down") \/ (~searching /\ key' = CharKey("j")))

MovesBackward ==
  KeyStep /\ (key' = KeyOf("Up") \/ (~searching /\ key' = CharKey("k")))

SelectionKept == UNCHANGED <<projects, list_state, searching, filter>>

----------------------------------------------------------------------------
(* Properties of the key loop, checked under Spec.                          *)

\* C1: in every state of the input loop the cursor is absent or a valid
\* index into the current filtered view, and it is absent whenever the
\* filtered view is empty.
CursorValidOrAbsent ==
  /\ list_state = None \/ InView(list_state, View)
  /\ View = <<>> => list_state = None

\* C2: entering search mode (/ while browsing), appending a character and
\* deleting a character (Backspace) while searching each leave the cursor
\* on the first element of the resulting filtered view: index 0, or absent
\* when that view is empty.
FilterEventsResetCursor ==
  [][(KeyStep /\ ((~searching /\ key' = CharKey("/"))
                   \/ (searching /\ key'.code = "Char")
                   \/ (searching /\ key' = KeyOf("Backspace"))))
       => list_state' = FirstOf(FilteredIndices(projects', filter'))]_vars

\* C3: Backspace while searching removes the last character of the filter;
\* search mode is left exactly when the filter that results is empty, and
\* then the filtered view is the whole collection and the cursor is index 0.
BackspaceLeavesSearchWhenEmpty ==
  [][(KeyStep /\ searching /\ key' = KeyOf("Backspace"))
       => /\ filter' = IF filter = <<>> THEN <<>>
                       ELSE SubSeq(filter, 1, Len(filter) - 1)
          /\ searching' = (filter' # <<>>)
          /\ filter' = <<>> =>
               /\ FilteredIndices(projects', filter') = AllIndices(projects)
               /\ list_state' = Some(0)
          /\ projects' = projects]_vars

\* C3 witness: the first of two Backspaces has acted: one character is left
\* and the loop is still searching.
BackspaceStaysSearching ==
  /\ pc = "loop" /\ key = KeyOf("Backspace")
  /\ searching /\ Len(filter) = 1
  /\ Len(projects) = 2

\* C4: Esc while searching goes to browsing, clears the filter and puts the
\* cursor on the first element of the unfiltered view (absent when the
\* collection is empty); Esc while browsing changes nothing.
EscCancelsSearch ==
  [][(KeyStep /\ key' = KeyOf("Esc"))
       => IF searching
          THEN /\ searching' = FALSE
               /\ filter' = <<>>
               /\ list_state' = FirstOf(AllIndices(projects'))
          ELSE SelectionKept /\ quit' = quit]_vars

\* C5: a move key moves the cursor by one position inside the filtered
\* view, stays at index 0 going backward and at the last index going
\* forward, makes the cursor absent on an empty view, and changes neither
\* the filter nor the search mode.
MoveClampsInsideView ==
  [][(MovesForward \/ MovesBackward)
       => /\ UNCHANGED <<projects, searching, filter>>
          /\ View = <<>> => list_state' = None
          /\ View # <<>> => InView(list_state', View)
          /\ InView(list_state, View) =>
               LET cur == Unwrap(list_state)
                   last == Len(View) - 1
               IN IF MovesForward
                  THEN list_state' = Some(IF cur = last THEN last ELSE cur + 1)
                  ELSE list_state' = Some(IF cur = 0 THEN 0 ELSE cur - 1)]_vars

\* C5 witness: Down has moved the cursor from index 0 to index 1 of a
\* filtered view of two projects.
MovedDownByOne ==
  /\ pc = "loop" /\ key = KeyOf("Down")
  /\ searching /\ filter # <<>>
  /\ Len(View) = 2 /\ list_state = Some(1)

\* C6: the filtered view lists, in strictly increasing order, exactly the
\* backing indices whose name contains the filter as a case-insensitive
\* substring; an empty filter gives every index, and a filter matching
\* one name only gives that one index.
FilteredViewIsTheMatches ==
  /\ \A k \in 1..Len(View) : View[k] \in Matching(projects, filter)
  /\ \A i \in Matching(projects, filter) : \E k \in 1..Len(View) : View[k] = i
  /\ \A k \in 1..(Len(View) - 1) : View[k] < View[k + 1]
  /\ filter = <<>> => View = AllIndices(projects)
  /\ \A i \in 0..(Len(projects) - 1) :
       Matching(projects, filter) = {i} => View = <<i>>

\* C6 witness: an upper-case filter has selected the one project, not the
\* first, whose name holds that letter in lower case.
FilterFoundOneByCase ==
  /\ filter = <<"J">>
  /\ Len(projects) = 2
  /\ projects[2].name = <<"a", "j">>
  /\ View = <<1>>

\* C7: open-in-file-browser (f), open-linked-document (d) and launch (Enter)
\* start a process only for the project at backing index View[cursor]; when
\* no project is selected each starts no process and leaves the terminal
\* mode and the selection state as they were.
ActionsUseSelectedProject ==
  [][(KeyStep /\ (key' = KeyOf("Enter")
                   \/ (~searching /\ key' \in {CharKey("f"), CharKey("d")})))
       => IF InView(list_state, View)
          THEN LET p == View[Unwrap(list_state) + 1]
               IN CASE key' = KeyOf("Enter") -> spawned' = Some(Child("claude", p))
                    [] key' = CharKey("f") -> spawned' = Some(Child("open", p))
                    [] key' = CharKey("d") ->
                         spawned' \in {None, Some(Child("open_uri", p))}
          ELSE /\ spawned' = None
               /\ UNCHANGED <<raw_mode, alt_screen, pc>>
               /\ SelectionKept]_vars

\* C7 witness: Enter was pressed while the filter matched no project of a
\* non-empty collection, and nothing happened.
EnterWithoutSelection ==
  /\ pc = "loop" /\ key = KeyOf("Enter")
  /\ projects # <<>> /\ View = <<>>
  /\ spawned = None /\ raw_mode /\ alt_screen

\* C8: launching on a selected project leaves raw mode and the alternate
\* screen while the assistant runs; when it returns, with success, with a
\* failure status or without having started, both are entered again, a
\* failure or a spawn error is printed, and the loop goes on with the
\* projects, filter, search mode and cursor it had.
LaunchSuspendsAndRestores ==
  [][/\ (KeyStep /\ key' = KeyOf("Enter") /\ InView(list_state, View))
          => pc' = "claude" /\ ~raw_mode' /\ ~alt_screen'
     /\ pc = "claude"
          => /\ pc' = "loop" /\ raw_mode' /\ alt_screen'
             /\ status' # None
             /\ (stderr' # None) = (Unwrap(status') # "success")
             /\ SelectionKept /\ quit' = quit /\ ~quit']_vars

\* C8 witness: the assistant could not be started; the message is out, the
\* terminal is interactive again and the search goes on.
LaunchFailureSurvived ==
  /\ pc = "loop" /\ status = Some("spawn_error")
  /\ stderr = Some("Failed to launch claude")
  /\ raw_mode /\ alt_screen
  /\ searching /\ filter # <<>> /\ View # <<>>

----------------------------------------------------------------------------
(* Properties of the scan, checked under SpecScan and SpecSort.             *)

\* the labels of project p that carry tag
LabelsOf(p, tag) ==
  {k \in 1..Len(p.config_labels) : p.config_labels[k].tag = tag}

\* project p carries what the answers e allow: a probe that failed has left
\* the default of its field
Degraded(e, p) ==
  /\ p.name = e.name
  /\ e.doc # "found" => ~p.has_doc
  /\ (~e.is_git \/ e.git.branch \in {"fail", "empty"}) => p.git_branch = None
  /\ (~e.is_git \/ e.git.status = "fail") => ~p.git_dirty
  /\ (e.is_git /\ e.git.log.how # "ok") => p.modified = None
  /\ (~e.is_git /\ e.children.how # "ok") => p.modified = None
  /\ e.config.skills.how = "fail" => LabelsOf(p, "skills") = {}
  /\ e.config.mcp.how \in {"unreadable", "garbage", "nokey"} =>
       \E k \in LabelsOf(p, "mcp") : p.config_labels[k].n = 1

SortedDescending(v) ==
  \A k \in 1..(Len(v) - 1) :
    \/ v[k + 1].modified = None
    \/ /\ v[k].modified # None
       /\ Unwrap(v[k].modified) >= Unwrap(v[k + 1].modified)

\* the number of times x occurs in v
Occurrences(v, x) == Cardinality({k \in 1..Len(v) : v[k] = x})

IsPermutation(v, w) ==
  /\ Len(v) = Len(w)
  /\ \A k \in 1..Len(v) : Occurrences(v, v[k]) = Occurrences(w, v[k])

\* C10: the collection the scan returns is in descending order of
\* last_modified with every absent value at the tail, and it is a
\* permutation of the projects that were scanned.
SortPutsAbsentLast ==
  [][(pc = "read_dir" /\ pc' = "loop")
       => SortedDescending(projects') /\ IsPermutation(projects, projects')]_vars

\* C10 witness: the scanned times [None, 2, 1, None, 3] have become
\* [3, 2, 1, None, None].
SortedTheExample ==
  /\ pc = "loop"
  /\ Len(projects) = 5
  /\ [k \in 1..5 |-> projects[k].modified] = <<Some(3), Some(2), Some(1), None, None>>
  /\ [k \in 1..5 |-> Len(projects[k].name)] = <<5, 2, 3, 1, 4>>

====
